---- MODULE Spec2Model ----
(***************************************************************************)
(* Optimization goals of pysmt (pysmt/optimization/goal.py).               *)
(*                                                                         *)
(* The state is a set of goal objects (their class and the instance        *)
(* attributes their constructors set), the list objects the caller passes  *)
(* to MinMaxGoal / MaxMinGoal (Python lists are passed by reference), the  *)
(* Python major version the module runs under (zip is a list in Python 2   *)
(* and a one-pass iterator in Python 3), and the outcome of the last call. *)
(***************************************************************************)
EXTENDS Integers, Sequences, FiniteSets

\* ---------------------------------------------------------------- bounds
MaxLen == 3

\* ---------------------------------------------------------------- inputs
Terms == {"t1", "t2"}
Clauses == {"c1", "c2"}
Weights == {1, 2}
None == "None"
Formulas == Terms \cup {None}
PyVersions == {2, 3}

\* identities of the goal objects and of the caller's list objects
GoalIds == {1, 2}
ListIds == {1, 2}

SeqUpTo(S, n) == UNION {[1..k -> S] : k \in 0..n}

VARIABLES py, cls, formula, term, soft, heap, ret
vars == <<py, cls, formula, term, soft, heap, ret>>

\* ------------------------------------------------------- class hierarchy
ConcreteClasses ==
    {"MaximizationGoal", "MinimizationGoal", "MinMaxGoal", "MaxMinGoal", "MaxSMTGoal"}
Classes == ConcreteClasses \cup {"Goal"}

\* variant: MaxMinGoal derived from MinMaxGoal to share its methods
Bases_MaxMinFromMinMax(c) ==
    IF c = "Goal" THEN "object" ELSE IF c = "MaxMinGoal" THEN "MinMaxGoal" ELSE "Goal"

\* class X(Goal) for the five concrete classes, class Goal(object)
Bases(c) == IF c = "Goal" THEN "object" ELSE "Goal"

\* the classes an instance of c is an instance of: c and its ancestors
RECURSIVE MRO(_)
MRO(c) == IF c = "object" THEN {"object"} ELSE {c} \cup MRO(Bases(c))

isinstance(c, k) == k \in MRO(c)

\* variant: MaxMinGoal without its is_simple_goal override
OwnMethods_NoOverride(c) ==
    CASE c = "Goal" -> {"is_maximization_goal", "is_minimization_goal", "is_minmax_goal",
                        "is_maxmin_goal", "is_maxsmt_goal", "is_simple_goal"}
      [] c \in {"MaximizationGoal", "MinimizationGoal"} -> {"__init__", "term", "is_simple_goal"}
      [] c = "MinMaxGoal" -> {"__init__", "add_terms", "terms", "is_simple_goal"}
      [] c = "MaxMinGoal" -> {"__init__", "add_terms", "terms"}
      [] c = "MaxSMTGoal" -> {"__init__", "add_soft_clause"}
      [] OTHER -> {}

\* methods each class body defines
OwnMethods(c) ==
    CASE c = "Goal" -> {"is_maximization_goal", "is_minimization_goal", "is_minmax_goal",
                        "is_maxmin_goal", "is_maxsmt_goal", "is_simple_goal"}
      [] c \in {"MaximizationGoal", "MinimizationGoal"} -> {"__init__", "term", "is_simple_goal"}
      [] c \in {"MinMaxGoal", "MaxMinGoal"} -> {"__init__", "add_terms", "terms", "is_simple_goal"}
      [] c = "MaxSMTGoal" -> {"__init__", "add_soft_clause"}
      [] OTHER -> {}

\* variant: the single-term goals store their term as self.term, as the
\* aggregate goals do
InstanceAttrs_TermAttr(c) ==
    CASE c \in {"MaximizationGoal", "MinimizationGoal", "MinMaxGoal", "MaxMinGoal"} -> {"term"}
      [] c = "MaxSMTGoal" -> {"soft"}
      [] OTHER -> {}

\* attributes the constructor of each class stores on the instance
InstanceAttrs(c) ==
    CASE c \in {"MaximizationGoal", "MinimizationGoal"} -> {"formula"}
      [] c \in {"MinMaxGoal", "MaxMinGoal"} -> {"term"}
      [] c = "MaxSMTGoal" -> {"soft"}
      [] OTHER -> {}

\* Outcome of evaluating obj.name() on an instance of class c: an instance
\* attribute shadows a method of the same name and is not callable.
CallOutcome(c, name) ==
    IF name \in InstanceAttrs(c) THEN "TypeError"
    ELSE IF \E k \in MRO(c) : name \in OwnMethods(k) THEN ""
    ELSE "AttributeError"

\* ------------------------------------------------------- kind predicates
is_maximization_goal(c) == isinstance(c, "MaximizationGoal")
is_minimization_goal(c) == isinstance(c, "MinimizationGoal")
is_minmax_goal(c) == isinstance(c, "MinMaxGoal")
is_maxmin_goal(c) == isinstance(c, "MaxMinGoal")
is_maxsmt_goal(c) == isinstance(c, "MaxSMTGoal")

\* Goal.is_simple_goal returns False; four subclasses override it with True
is_simple_goal(c) ==
    IF "is_simple_goal" \in OwnMethods(c) /\ c # "Goal" THEN TRUE ELSE FALSE

Predicates == {"is_maximization_goal", "is_minimization_goal", "is_minmax_goal",
               "is_maxmin_goal", "is_maxsmt_goal", "is_simple_goal"}

EvalPredicate(p, c) ==
    CASE p = "is_maximization_goal" -> is_maximization_goal(c)
      [] p = "is_minimization_goal" -> is_minimization_goal(c)
      [] p = "is_minmax_goal" -> is_minmax_goal(c)
      [] p = "is_maxmin_goal" -> is_maxmin_goal(c)
      [] p = "is_maxsmt_goal" -> is_maxsmt_goal(c)
      [] OTHER -> is_simple_goal(c)

\* ------------------------------------------------------------------- zip
Min(a, b) == IF a <= b THEN a ELSE b

\* positional pairing, stopping at the shorter argument
ZipPairs(C, W) == [i \in 1..Min(Len(C), Len(W)) |-> <<C[i], W[i]>>]

\* zip(clause, weight): a list under Python 2, a one-pass iterator under Python 3
zip(C, W) == [kind |-> IF py = 2 THEN "list" ELSE "zip", items |-> ZipPairs(C, W)]

NoSoft == [kind |-> "none", items |-> <<>>]

\* ------------------------------------------------------- last call record
Ret(op, g) == [op |-> op, goal |-> g, exc |-> "", term |-> None, ref |-> 0,
               seq |-> <<>>, wts |-> <<>>, bool |-> FALSE, pairs |-> <<>>]

Init ==
    /\ py \in PyVersions
    /\ cls = [g \in GoalIds |-> "none"]
    /\ formula = [g \in GoalIds |-> None]
    /\ term = [g \in GoalIds |-> 0]
    /\ soft = [g \in GoalIds |-> NoSoft]
    /\ heap = <<>>
    /\ ret = Ret("start", 0)

\* ----------------------------------------------------------- constructors
NewGoal(g) ==
    /\ cls[g] = "none"
    /\ cls' = [cls EXCEPT ![g] = "Goal"]
    /\ ret' = Ret("__init__", g)
    /\ UNCHANGED <<py, formula, term, soft, heap>>

NewMaximizationGoal(g, f) ==
    /\ cls[g] = "none"
    /\ cls' = [cls EXCEPT ![g] = "MaximizationGoal"]
    /\ formula' = [formula EXCEPT ![g] = f]
    /\ ret' = [Ret("__init__", g) EXCEPT !.term = f]
    /\ UNCHANGED <<py, term, soft, heap>>

\* variant: minimization stored as the maximization of the negated term
NewMinimizationGoal_Negated(g, f) ==
    /\ cls[g] = "none"
    /\ cls' = [cls EXCEPT ![g] = "MinimizationGoal"]
    /\ formula' = [formula EXCEPT ![g] = IF f = None THEN None ELSE "Times(-1," \o f \o ")"]
    /\ ret' = [Ret("__init__", g) EXCEPT !.term = f]
    /\ UNCHANGED <<py, term, soft, heap>>

NewMinimizationGoal(g, f) ==
    /\ cls[g] = "none"
    /\ cls' = [cls EXCEPT ![g] = "MinimizationGoal"]
    /\ formula' = [formula EXCEPT ![g] = f]
    /\ ret' = [Ret("__init__", g) EXCEPT !.term = f]
    /\ UNCHANGED <<py, term, soft, heap>>

NewMinMaxGoal(g, l) ==
    /\ cls[g] = "none"
    /\ cls' = [cls EXCEPT ![g] = "MinMaxGoal"]
    /\ term' = [term EXCEPT ![g] = l]
    /\ ret' = [Ret("__init__", g) EXCEPT !.ref = l]
    /\ UNCHANGED <<py, formula, soft, heap>>

NewMaxMinGoal(g, l) ==
    /\ cls[g] = "none"
    /\ cls' = [cls EXCEPT ![g] = "MaxMinGoal"]
    /\ term' = [term EXCEPT ![g] = l]
    /\ ret' = [Ret("__init__", g) EXCEPT !.ref = l]
    /\ UNCHANGED <<py, formula, soft, heap>>

NewMaxSMTGoal(g, C, W) ==
    /\ cls[g] = "none"
    /\ cls' = [cls EXCEPT ![g] = "MaxSMTGoal"]
    /\ soft' = [soft EXCEPT ![g] = zip(C, W)]
    /\ ret' = [Ret("__init__", g) EXCEPT !.seq = C, !.wts = W]
    /\ UNCHANGED <<py, formula, term, heap>>

\* ---------------------------------------------------------------- methods
CallPredicate(g, p) ==
    /\ cls[g] \in Classes
    /\ ret' = [Ret(p, g) EXCEPT !.exc = CallOutcome(cls[g], p),
                                !.bool = (CallOutcome(cls[g], p) = "" /\ EvalPredicate(p, cls[g]))]
    /\ UNCHANGED <<py, cls, formula, term, soft, heap>>

\* goal.term()
call_term(g) ==
    /\ cls[g] \in Classes
    /\ ret' = [Ret("term", g) EXCEPT
                  !.exc = CallOutcome(cls[g], "term"),
                  !.term = IF CallOutcome(cls[g], "term") = "" THEN formula[g] ELSE None]
    /\ UNCHANGED <<py, cls, formula, term, soft, heap>>

\* goal.terms(): returns the list object itself
call_terms(g) ==
    /\ cls[g] \in Classes
    /\ ret' = [Ret("terms", g) EXCEPT
                  !.exc = CallOutcome(cls[g], "terms"),
                  !.ref = IF CallOutcome(cls[g], "terms") = "" THEN term[g] ELSE 0]
    /\ UNCHANGED <<py, cls, formula, term, soft, heap>>

\* variant: list.append(list(terms)) keeps one element per call
extend_AsAppend(l, E) == [heap EXCEPT ![l] = IF E = <<>> THEN heap[l] ELSE Append(heap[l], E[1])]

\* list.extend(list(terms)) on the list object the goal refers to
extend(l, E) == [heap EXCEPT ![l] = heap[l] \o E]

add_terms(g, E) ==
    /\ cls[g] \in {"MinMaxGoal", "MaxMinGoal"}
    /\ Len(heap[term[g]]) + Len(E) <= MaxLen
    /\ heap' = extend(term[g], E)
    /\ ret' = [Ret("add_terms", g) EXCEPT !.seq = E]
    /\ UNCHANGED <<py, cls, formula, term, soft>>

\* self.soft.append((clause, weight)): only a list has append
add_soft_clause(g, c, w) ==
    /\ cls[g] = "MaxSMTGoal"
    /\ Len(soft[g].items) < MaxLen
    /\ IF soft[g].kind = "list"
       THEN /\ soft' = [soft EXCEPT ![g].items = Append(@, <<c, w>>)]
            /\ ret' = [Ret("add_soft_clause", g) EXCEPT !.pairs = <<<<c, w>>>>]
       ELSE /\ soft' = soft
            /\ ret' = [Ret("add_soft_clause", g) EXCEPT !.pairs = <<<<c, w>>>>,
                                                        !.exc = "AttributeError"]
    /\ UNCHANGED <<py, cls, formula, term, heap>>

\* for (c, w) in goal.soft: a list is left as it is, an iterator is exhausted
iter_soft(g) ==
    /\ cls[g] = "MaxSMTGoal"
    /\ ret' = [Ret("iter_soft", g) EXCEPT !.pairs = soft[g].items]
    /\ soft' = IF soft[g].kind = "zip" THEN [soft EXCEPT ![g].items = <<>>] ELSE soft
    /\ UNCHANGED <<py, cls, formula, term, heap>>

\* ----------------------------------------------------------------- caller
\* the caller builds a list of terms to hand to a goal
CallerNewList(T) ==
    /\ Len(heap) + 1 \in ListIds
    /\ heap' = Append(heap, T)
    /\ ret' = Ret("caller_list", 0)
    /\ UNCHANGED <<py, cls, formula, term, soft>>

\* the caller appends to a list it built
CallerAppend(l, t) ==
    /\ l \in 1..Len(heap)
    /\ Len(heap[l]) < MaxLen
    /\ heap' = [heap EXCEPT ![l] = Append(@, t)]
    /\ ret' = [Ret("caller_append", 0) EXCEPT !.ref = l]
    /\ UNCHANGED <<py, cls, formula, term, soft>>

\* A program that builds one goal of any class and at most one list.
Next ==
    \/ NewGoal(1)
    \/ \E f \in Formulas : NewMaximizationGoal(1, f)
    \/ \E f \in Formulas : NewMinimizationGoal(1, f)
    \/ \E l \in 1..Len(heap) : NewMinMaxGoal(1, l)
    \/ \E l \in 1..Len(heap) : NewMaxMinGoal(1, l)
    \/ \E C \in SeqUpTo(Clauses, MaxLen), W \in SeqUpTo(Weights, MaxLen) :
          NewMaxSMTGoal(1, C, W)
    \/ \E p \in Predicates : CallPredicate(1, p)
    \/ call_term(1)
    \/ call_terms(1)
    \/ \E E \in SeqUpTo(Terms, MaxLen) : add_terms(1, E)
    \/ \E c \in Clauses, w \in Weights : add_soft_clause(1, c, w)
    \/ iter_soft(1)
    \/ \E T \in SeqUpTo(Terms, MaxLen) : Len(heap) = 0 /\ CallerNewList(T)
    \/ \E l \in ListIds, t \in Terms : CallerAppend(l, t)

Spec == Init /\ [][Next]_vars

\* A program that builds MinMax / MaxMin goals over lists it keeps using.
NextShared ==
    \/ \E g \in GoalIds, l \in 1..Len(heap) : NewMinMaxGoal(g, l)
    \/ \E g \in GoalIds, l \in 1..Len(heap) : NewMaxMinGoal(g, l)
    \/ \E g \in GoalIds : call_terms(g)
    \/ \E g \in GoalIds, E \in SeqUpTo(Terms, MaxLen) : add_terms(g, E)
    \/ \E T \in SeqUpTo(Terms, MaxLen) : CallerNewList(T)
    \/ \E l \in ListIds, t \in Terms : CallerAppend(l, t)

SpecShared == Init /\ [][NextShared]_vars

\* =================================================================== claims
SimpleClasses == {"MaximizationGoal", "MinimizationGoal"}
AggregateClasses == {"MinMaxGoal", "MaxMinGoal"}
KindPredicates == Predicates \ {"is_simple_goal"}

\* the kind predicate each concrete class is expected to answer
KindPredicateOf(c) ==
    CASE c = "MaximizationGoal" -> "is_maximization_goal"
      [] c = "MinimizationGoal" -> "is_minimization_goal"
      [] c = "MinMaxGoal" -> "is_minmax_goal"
      [] c = "MaxMinGoal" -> "is_maxmin_goal"
      [] OTHER -> "is_maxsmt_goal"

\* what goal.terms() currently holds, and what iterating goal.soft would yield
TermsOf(g) == heap[term[g]]
PairsOf(g) == soft[g].items

\* C1: for a goal of one of the five concrete classes, in every reachable
\* state, exactly one of the five kind predicates is true, and it is the one
\* of the class the goal was constructed as; a call of a kind predicate
\* returns that answer.
C1_ExactlyOneKind ==
    /\ \A g \in GoalIds : cls[g] \in ConcreteClasses =>
          {p \in KindPredicates : EvalPredicate(p, cls[g])} = {KindPredicateOf(cls[g])}
    /\ (ret.op \in KindPredicates /\ cls[ret.goal] \in ConcreteClasses) =>
          (ret.exc = "" /\ ret.bool = (ret.op = KindPredicateOf(cls[ret.goal])))

\* a MaxMinGoal that has terms appended answers is_maxmin_goal with true
C1_Witness ==
    /\ ret.op = "is_maxmin_goal" /\ ret.bool
    /\ cls[1] = "MaxMinGoal" /\ Len(TermsOf(1)) >= 2

\* C2 (as claimed): MaxSMTGoal(C, W) with Len(C) = Len(W) holds the pairs
\* (C[i], W[i]) in order, and every add_soft_clause(c, w) succeeds and appends
\* (c, w) after the pairs stored before.
C2_SoftPairsAppend ==
    [][\A g \in GoalIds :
         /\ (ret'.op = "__init__" /\ ret'.goal = g /\ cls'[g] = "MaxSMTGoal" /\ cls[g] = "none"
               /\ Len(ret'.seq) = Len(ret'.wts))
              => PairsOf(g)' = [i \in 1..Len(ret'.seq) |-> <<ret'.seq[i], ret'.wts[i]>>]
         /\ (ret'.op = "add_soft_clause" /\ ret'.goal = g)
              => (ret'.exc = "" /\ PairsOf(g)' = PairsOf(g) \o ret'.pairs)]_vars

\* C3 (as claimed): constructing a MaxSMTGoal from a clause sequence and a
\* weight sequence of different lengths fails.
C3_MismatchFails ==
    (ret.op = "__init__" /\ cls[ret.goal] = "MaxSMTGoal" /\ Len(ret.seq) # Len(ret.wts))
       => ret.exc # ""

\* C4: constructing a MinMaxGoal / MaxMinGoal over the sequence T makes
\* terms() hold T, and each add_terms(E...) makes terms() hold what it held
\* before followed by E in argument order; so after add_terms calls E1..Ek
\* terms() is T followed by E1, ..., Ek.
C4_AddTermsAppends ==
    [][\A g \in GoalIds :
         /\ (ret'.op = "__init__" /\ ret'.goal = g /\ cls[g] = "none"
               /\ cls'[g] \in AggregateClasses)
              => TermsOf(g)' = heap[ret'.ref]
         /\ (ret'.op = "add_terms" /\ ret'.goal = g /\ cls[g] \in AggregateClasses)
              => (ret'.exc = "" /\ TermsOf(g)' = TermsOf(g) \o ret'.seq)]_vars

\* add_terms with two arguments has filled the list of a goal built over a
\* non-empty list
C4_Witness ==
    /\ ret.op = "add_terms" /\ Len(ret.seq) = 2 /\ ret.seq[1] # ret.seq[2]
    /\ cls[ret.goal] \in AggregateClasses
    /\ Len(TermsOf(ret.goal)) = 3

\* C5: is_simple_goal() is true for every MaximizationGoal, MinimizationGoal,
\* MinMaxGoal and MaxMinGoal and false for every MaxSMTGoal and for a goal
\* of the base class, in every reachable state.
C5_SimpleGoal ==
    /\ \A g \in GoalIds : cls[g] \in Classes =>
          (is_simple_goal(cls[g]) <=> cls[g] \in SimpleClasses \cup AggregateClasses)
    /\ (ret.op = "is_simple_goal" /\ cls[ret.goal] \in Classes) =>
          (ret.exc = "" /\ (ret.bool <=> cls[ret.goal] \in SimpleClasses \cup AggregateClasses))

\* is_simple_goal has answered false on a MaxSMTGoal holding pairs
C5_Witness ==
    ret.op = "is_simple_goal" /\ ~ret.bool /\ cls[ret.goal] = "MaxSMTGoal"
       /\ Len(PairsOf(ret.goal)) > 0

\* C6: MaximizationGoal(f) and MinimizationGoal(f) store exactly f, no call
\* on the goal changes the stored term, and term() returns it.
C6_TermIsArgument ==
    [][\A g \in GoalIds :
         /\ (ret'.op = "__init__" /\ ret'.goal = g /\ cls[g] = "none"
               /\ cls'[g] \in SimpleClasses)
              => formula'[g] = ret'.term
         /\ cls[g] \in SimpleClasses => formula'[g] = formula[g]
         /\ (ret'.op = "term" /\ ret'.goal = g /\ cls[g] \in SimpleClasses)
              => (ret'.exc = "" /\ ret'.term = formula[g])]_vars

\* term() has returned the term a MinimizationGoal was built with
C6_Witness ==
    ret.op = "term" /\ cls[ret.goal] = "MinimizationGoal" /\ ret.term = "t2"

\* C7: term() on a Maximization / Minimization goal, terms() on a MinMax /
\* MaxMin goal and the iteration over the pairs of a MaxSMT goal never raise.
C7_AccessorsTotal ==
    /\ (ret.op = "term" /\ cls[ret.goal] \in SimpleClasses) => ret.exc = ""
    /\ (ret.op = "terms" /\ cls[ret.goal] \in AggregateClasses) => ret.exc = ""
    /\ (ret.op = "iter_soft" /\ cls[ret.goal] = "MaxSMTGoal") => ret.exc = ""

\* term() has returned on a MaximizationGoal
C7_Witness ==
    ret.op = "term" /\ cls[ret.goal] = "MaximizationGoal" /\ ret.exc = ""
       /\ ret.term = "t1"

\* C8 (as claimed): the term stored by a Maximization / Minimization goal is
\* never None.
C8_TermNeverNone ==
    \A g \in GoalIds : cls[g] \in SimpleClasses => formula[g] # None

\* C9 (as claimed): what terms() of a MinMax / MaxMin goal holds changes only
\* by add_terms on that goal, and add_terms leaves the lists of the caller
\* as they were.
C9_OnlyOwnAddTerms ==
    [][\A g \in GoalIds : cls[g] \in AggregateClasses =>
         /\ TermsOf(g)' # TermsOf(g) => (ret'.op = "add_terms" /\ ret'.goal = g)
         /\ (ret'.op = "add_terms" /\ ret'.goal = g) => heap' = heap]_vars

\* C10 (as claimed): two iterations over the pairs of a MaxSMT goal with no
\* call in between yield the same pairs.
C10_IterationRepeats ==
    [][(ret.op = "iter_soft" /\ ret'.op = "iter_soft" /\ ret'.goal = ret.goal)
         => ret'.pairs = ret.pairs]_vars

====
